---- MODULE Spec2Model ----
(***************************************************************************)
(* State-machine model of the Mintable ink! contract (src/lib.rs): a       *)
(* mintable, burnable ERC20-style ledger with allowances.                  *)
(*                                                                         *)
(* Every message is one action.  The private functions (_mint, _burn,      *)
(* _transfer, _approve) are operators that thread the contract storage     *)
(* through their statements in source order and stop at the first panic;   *)
(* the contract call then traps and the storage written so far is          *)
(* discarded (Commit).                                                     *)
(***************************************************************************)
EXTENDS Integers, Sequences, FiniteSets, TLC

\* ---------------------------------------------------------------- bounds
\* Largest value of the Balance type in the model (u128::MAX in the build).
MaxBalance == 2
\* Number of messages dispatched to the contract after construction.
MaxCalls == 3
\* The same, in runs where only the accounts of PairAccounts take part.
MaxPairCalls == 4

\* AccountId values the environment may supply as caller or argument.
Accounts == {"a1", "a2", "a3"}
\* The accounts of the two-party runs (an owner and a spender).
PairAccounts == {"a1", "a2"}
\* The account that deploys the contract.  AccountIds are opaque and only ever
\* compared for equality, so one deployer stands for all.
Creators == {"a1"}
\* Option<AccountId>::None in events.
None == "None"
\* Every value a Balance argument can take.
Balance == 0..MaxBalance
\* Names the constructor may be given.
Names == {"BTC"}

VARIABLES
    name,            \* storage::Value<String>
    minter,          \* storage::Value<AccountId>
    total_supply,    \* storage::Value<Balance>
    balances,        \* storage::HashMap<AccountId, Balance>: a function on the keys inserted
    allowances,      \* storage::HashMap<(AccountId, AccountId), Balance>
    events,          \* events emitted by the most recent call, in order
    overflow_checks, \* build profile: TRUE when `+`/`-` panic on overflow, FALSE when they wrap
    last,            \* the most recent call: message, caller, arguments and outcome
    calls,           \* number of messages dispatched so far
    delegated        \* history, per (owner, spender): the owner's latest approve, the
                     \* allowance it replaced, and the values the spender's
                     \* transfer_from calls have moved since

vars == <<name, minter, total_supply, balances, allowances, events,
          overflow_checks, last, calls, delegated>>

Pairs == Accounts \X Accounts

\* ------------------------------------------------------------- arithmetic
\* `a + b` on Balance: does the mathematical sum leave the type's range?
AddOverflows(a, b) == a + b > MaxBalance
\* `a - b` on Balance: does the mathematical difference leave the type's range?
SubOverflows(a, b) == a - b < 0
\* The value a wrapping build stores: the result modulo the integer width.
Wrap(x) == x % (MaxBalance + 1)

\* ---------------------------------------------------------------- events
TransferEvent(from, to, value) ==
    [event |-> "Transfer", from |-> from, to |-> to, value |-> value]

ApprovalEvent(owner, spender, value) ==
    [event |-> "Approval", owner |-> owner, spender |-> spender, value |-> value]

\* ------------------------------------------------------ storage snapshots
\* The mutable storage a message works on.
Storage == [total_supply |-> total_supply, balances |-> balances,
            allowances |-> allowances, events |-> <<>>]

\* A run that reached the end of a function, and one stopped by a panic.
Ok(st) == [st |-> st, err |-> "none"]
Panic(st, why) == [st |-> st, err |-> why]

\* HashMap::insert
Insert(map, key, value) ==
    [k \in DOMAIN map \cup {key} |-> IF k = key THEN value ELSE map[k]]

\* -------------------------------------------------------------- accessors
balance_of_or_zero(st, owner) ==
    IF owner \in DOMAIN st.balances THEN st.balances[owner] ELSE 0

allowance_of_or_zero(st, owner, spender) ==
    IF <<owner, spender>> \in DOMAIN st.allowances
    THEN st.allowances[<<owner, spender>>] ELSE 0

\* The read messages, on the committed storage.
balance_of(owner) == balance_of_or_zero(Storage, owner)
allowance(owner, spender) == allowance_of_or_zero(Storage, owner, spender)

\* ------------------------------------------------------ private functions
\* _mint without the caller check of line 132.
_mint_any_caller(st, caller, to, value) ==
    LET to_balance == balance_of_or_zero(st, to) IN
    IF overflow_checks /\ AddOverflows(to_balance, value)
    THEN Panic(st, "ArithmeticOverflow")
    ELSE
      LET s1 == [st EXCEPT !.balances = Insert(@, to, Wrap(to_balance + value))] IN
      IF overflow_checks /\ AddOverflows(s1.total_supply, value)
      THEN Panic(s1, "ArithmeticOverflow")
      ELSE
        Ok([s1 EXCEPT !.total_supply = Wrap(@ + value),
                      !.events = Append(@, TransferEvent(None, to, value))])

_mint(st, caller, to, value) ==
    IF caller # minter THEN Panic(st, "Unauthorized")
    ELSE
      LET to_balance == balance_of_or_zero(st, to) IN
      IF overflow_checks /\ AddOverflows(to_balance, value)
      THEN Panic(st, "ArithmeticOverflow")
      ELSE
        LET s1 == [st EXCEPT !.balances = Insert(@, to, Wrap(to_balance + value))] IN
        IF overflow_checks /\ AddOverflows(s1.total_supply, value)
        THEN Panic(s1, "ArithmeticOverflow")
        ELSE
          Ok([s1 EXCEPT !.total_supply = Wrap(@ + value),
                        !.events = Append(@, TransferEvent(None, to, value))])

\* _burn whose balance check compares against the total supply instead of the
\* caller's balance.
_burn_checks_supply(st, from, value) ==
    LET from_balance == balance_of_or_zero(st, from) IN
    IF ~(st.total_supply >= value) THEN Panic(st, "InsufficientBalance")
    ELSE
      LET s1 == [st EXCEPT !.balances = Insert(@, from, Wrap(from_balance - value))] IN
      Ok([s1 EXCEPT !.total_supply = Wrap(@ - value),
                    !.events = Append(@, TransferEvent(from, None, value))])

_burn(st, from, value) ==
    LET from_balance == balance_of_or_zero(st, from) IN
    IF ~(from_balance >= value) THEN Panic(st, "InsufficientBalance")
    ELSE
      LET s1 == [st EXCEPT !.balances = Insert(@, from, from_balance - value)] IN
      IF overflow_checks /\ SubOverflows(s1.total_supply, value)
      THEN Panic(s1, "ArithmeticOverflow")
      ELSE
        Ok([s1 EXCEPT !.total_supply = Wrap(@ - value),
                      !.events = Append(@, TransferEvent(from, None, value))])

\* _transfer whose balance check reads the recipient's balance.
_transfer_checks_recipient(st, from, to, value) ==
    LET from_balance == balance_of_or_zero(st, from) IN
    IF ~(balance_of_or_zero(st, to) >= value) THEN Panic(st, "InsufficientBalance")
    ELSE
      LET s1 == [st EXCEPT !.balances = Insert(@, from, Wrap(from_balance - value))]
          to_balance == balance_of_or_zero(s1, to)
      IN
      Ok([s1 EXCEPT !.balances = Insert(@, to, Wrap(to_balance + value)),
                    !.events = Append(@, TransferEvent(from, to, value))])

\* _transfer that reads the recipient's balance before debiting the source.
_transfer_stale_recipient(st, from, to, value) ==
    LET from_balance == balance_of_or_zero(st, from)
        to_balance == balance_of_or_zero(st, to)
    IN
    IF ~(from_balance >= value) THEN Panic(st, "InsufficientBalance")
    ELSE
      LET s1 == [st EXCEPT !.balances = Insert(@, from, from_balance - value)] IN
      IF overflow_checks /\ AddOverflows(to_balance, value)
      THEN Panic(s1, "ArithmeticOverflow")
      ELSE
        Ok([s1 EXCEPT !.balances = Insert(@, to, Wrap(to_balance + value)),
                      !.events = Append(@, TransferEvent(from, to, value))])

_transfer(st, from, to, value) ==
    LET from_balance == balance_of_or_zero(st, from) IN
    IF ~(from_balance >= value) THEN Panic(st, "InsufficientBalance")
    ELSE
      LET s1 == [st EXCEPT !.balances = Insert(@, from, from_balance - value)]
          to_balance == balance_of_or_zero(s1, to)
      IN
      IF overflow_checks /\ AddOverflows(to_balance, value)
      THEN Panic(s1, "ArithmeticOverflow")
      ELSE
        Ok([s1 EXCEPT !.balances = Insert(@, to, Wrap(to_balance + value)),
                      !.events = Append(@, TransferEvent(from, to, value))])

\* _approve that adds the value to the allowance already stored.
_approve_adds(st, owner, spender, value) ==
    Ok([st EXCEPT !.allowances = Insert(@, <<owner, spender>>,
                      Wrap(allowance_of_or_zero(st, owner, spender) + value)),
                  !.events = Append(@, ApprovalEvent(owner, spender, value))])

\* _approve that also writes the allowance of the reversed pair.
_approve_both_ways(st, owner, spender, value) ==
    Ok([st EXCEPT !.allowances = Insert(Insert(@, <<owner, spender>>, value),
                                        <<spender, owner>>, value),
                  !.events = Append(@, ApprovalEvent(owner, spender, value))])

_approve(st, owner, spender, value) ==
    Ok([st EXCEPT !.allowances = Insert(@, <<owner, spender>>, value),
                  !.events = Append(@, ApprovalEvent(owner, spender, value))])

\* ---------------------------------------------------------- message bodies
mint(st, caller, to, value) == _mint(st, caller, to, value)

burn(st, caller, value) == _burn(st, caller, value)

transfer(st, caller, to, value) == _transfer(st, caller, to, value)

approve(st, caller, spender, value) == _approve(st, caller, spender, value)

\* transfer_from that writes the allowance back without subtracting the value.
transfer_from_keeps_allowance(st, caller, from, to, value) ==
    LET r == _transfer(st, from, to, value) IN
    IF r.err # "none" THEN r
    ELSE
      LET spender == caller
          current == allowance_of_or_zero(r.st, from, spender)
      IN
      IF ~(current >= value) THEN Panic(r.st, "InsufficientAllowance")
      ELSE _approve(r.st, from, spender, current)

\* transfer_from without the allowance check of line 123.
transfer_from_unchecked(st, caller, from, to, value) ==
    LET r == _transfer(st, from, to, value) IN
    IF r.err # "none" THEN r
    ELSE
      LET spender == caller
          current == allowance_of_or_zero(r.st, from, spender)
      IN
      _approve(r.st, from, spender, Wrap(current - value))

\* transfer_from that stores the new allowance without going through _approve,
\* so that no Approval is emitted.
transfer_from_silent(st, caller, from, to, value) ==
    LET r == _transfer(st, from, to, value) IN
    IF r.err # "none" THEN r
    ELSE
      LET spender == caller
          current == allowance_of_or_zero(r.st, from, spender)
      IN
      IF ~(current >= value) THEN Panic(r.st, "InsufficientAllowance")
      ELSE Ok([r.st EXCEPT !.allowances =
                             Insert(@, <<from, spender>>, current - value)])

\* transfer_from that checks the allowance before it runs _transfer.
transfer_from_allowance_first(st, caller, from, to, value) ==
    LET spender == caller
        current == allowance_of_or_zero(st, from, spender)
    IN
    IF ~(current >= value) THEN Panic(st, "InsufficientAllowance")
    ELSE
      LET r == _transfer(st, from, to, value) IN
      IF r.err # "none" THEN r
      ELSE _approve(r.st, from, spender, current - value)

transfer_from(st, caller, from, to, value) ==
    LET r == _transfer(st, from, to, value) IN
    IF r.err # "none" THEN r
    ELSE
      LET spender == caller
          current == allowance_of_or_zero(r.st, from, spender)
      IN
      IF ~(current >= value) THEN Panic(r.st, "InsufficientAllowance")
      ELSE _approve(r.st, from, spender, current - value)

\* -------------------------------------------------------------- dispatch
\* A dispatch that keeps the storage a panicking message had written.
CommitPartial(r) == r.st

\* A message that panics traps the call and none of its storage writes or
\* events persist; one that returns commits them.
Commit(r) == IF r.err = "none" THEN r.st ELSE Storage

\* A dispatch in which a successful message makes its caller the minter.
Call_hands_over_minter(op, caller, from, to, value, r) ==
    /\ calls' = calls + 1
    /\ LET st == Commit(r) IN
         /\ total_supply' = st.total_supply
         /\ balances' = st.balances
         /\ allowances' = st.allowances
         /\ events' = st.events
    /\ last' = [op |-> op, caller |-> caller, from |-> from, to |-> to,
                value |-> value, result |-> IF r.err = "none" THEN "ok" ELSE r.err]
    /\ minter' = IF r.err = "none" THEN caller ELSE minter
    /\ UNCHANGED <<name, overflow_checks>>

Call(op, caller, from, to, value, r) ==
    /\ calls' = calls + 1
    /\ LET st == Commit(r) IN
         /\ total_supply' = st.total_supply
         /\ balances' = st.balances
         /\ allowances' = st.allowances
         /\ events' = st.events
    /\ last' = [op |-> op, caller |-> caller, from |-> from, to |-> to,
                value |-> value, result |-> IF r.err = "none" THEN "ok" ELSE r.err]
    /\ UNCHANGED <<name, minter, overflow_checks>>

\* ---------------------------------------------------------------- actions
\* A constructor that credits the caller with one unit it does not add to
\* the supply.
Init_credits_caller ==
    /\ name \in Names
    /\ minter \in Creators
    /\ total_supply = 0
    /\ balances = Insert(<<>>, minter, 1)
    /\ allowances = <<>>
    /\ events = <<TransferEvent(None, minter, 0)>>
    /\ overflow_checks \in BOOLEAN
    /\ last = [op |-> "new", caller |-> minter, from |-> None, to |-> minter,
               value |-> 0, result |-> "ok"]
    /\ calls = 0
    /\ delegated = [p \in Pairs |-> [approved |-> FALSE, limit |-> 0, moved |-> <<>>,
                                     replaced |-> 0]]

\* The constructor `new`, called once by any account.
Init ==
    /\ name \in Names
    /\ minter \in Creators
    /\ total_supply = 0
    /\ balances = Insert(<<>>, minter, 0)
    /\ allowances = <<>>
    /\ events = <<TransferEvent(None, minter, 0)>>
    /\ overflow_checks \in BOOLEAN
    /\ last = [op |-> "new", caller |-> minter, from |-> None, to |-> minter,
               value |-> 0, result |-> "ok"]
    /\ calls = 0
    /\ delegated = [p \in Pairs |-> [approved |-> FALSE, limit |-> 0, moved |-> <<>>,
                                     replaced |-> 0]]

Mint(caller, to, value) ==
    /\ Call("mint", caller, None, to, value, mint(Storage, caller, to, value))
    /\ UNCHANGED delegated

Burn(caller, value) ==
    /\ Call("burn", caller, caller, None, value, burn(Storage, caller, value))
    /\ UNCHANGED delegated

Transfer(caller, to, value) ==
    /\ Call("transfer", caller, caller, to, value, transfer(Storage, caller, to, value))
    /\ UNCHANGED delegated

Approve(caller, spender, value) ==
    /\ Call("approve", caller, caller, spender, value,
            approve(Storage, caller, spender, value))
    /\ delegated' = [delegated EXCEPT ![<<caller, spender>>] =
                        [approved |-> TRUE, limit |-> value, moved |-> <<>>,
                         replaced |-> allowance(caller, spender)]]

TransferFrom(caller, from, to, value) ==
    LET r == transfer_from(Storage, caller, from, to, value) IN
    /\ Call("transfer_from", caller, from, to, value, r)
    /\ delegated' = IF r.err = "none"
                    THEN [delegated EXCEPT ![<<from, caller>>].moved = Append(@, value)]
                    ELSE delegated

\* One message, with caller and arguments drawn from the accounts in A.
Step(A) ==
    \/ \E caller \in A, to \in A, value \in Balance :
          Mint(caller, to, value)
    \/ \E caller \in A, value \in Balance :
          Burn(caller, value)
    \/ \E caller \in A, to \in A, value \in Balance :
          Transfer(caller, to, value)
    \/ \E caller \in A, spender \in A, value \in Balance :
          Approve(caller, spender, value)
    \/ \E caller \in A, from \in A, to \in A, value \in Balance :
          TransferFrom(caller, from, to, value)

Next == calls < MaxCalls /\ Step(Accounts)

Spec == Init /\ [][Next]_vars

\* Runs among two accounts only, which can be followed for more calls.
PairNext == calls < MaxPairCalls /\ Step(PairAccounts)

PairSpec == Init /\ [][PairNext]_vars

\* ================================================================ properties
RECURSIVE SetSum(_, _)
\* The sum of f(x) over the finite set S.
SetSum(f(_), S) ==
    IF S = {} THEN 0
    ELSE LET x == CHOOSE y \in S : TRUE IN f(x) + SetSum(f, S \ {x})

RECURSIVE SeqSum(_)
SeqSum(q) == IF q = <<>> THEN 0 ELSE Head(q) + SeqSum(Tail(q))

\* The step leaves everything the read messages return as it was.
LedgerUnchanged ==
    /\ total_supply' = total_supply
    /\ \A a \in Accounts : balance_of(a)' = balance_of(a)
    /\ \A o \in Accounts, s \in Accounts : allowance(o, s)' = allowance(o, s)

\* The step leaves total_supply and every balance as they were.
BalancesUnchanged ==
    /\ total_supply' = total_supply
    /\ \A a \in Accounts : balance_of(a)' = balance_of(a)

\* The step is a call of message op.
Called(op) == calls' = calls + 1 /\ last'.op = op

\* ------------------------------------------------------------------- C1
\* C1: in every reachable state total_supply() equals the sum of
\* balance_of(a) over all accounts a.
Conservation == total_supply = SetSum(balance_of, Accounts)

\* ------------------------------------------------------------------- C2
\* C2: a mint call whose caller is not minter(), for any target and any value
\* (0 included), fails with Unauthorized and leaves total_supply, all
\* balances and all allowances unchanged.
MinterExclusivity ==
    [][(Called("mint") /\ last'.caller # minter)
         => (last'.result = "Unauthorized" /\ LedgerUnchanged)]_vars

\* A zero-value mint by a non-minter has just been refused on a ledger that
\* holds supply.
MinterExclusivityWitness ==
    /\ last.op = "mint" /\ last.caller # minter /\ last.value = 0
    /\ last.result = "Unauthorized"
    /\ total_supply > 0

\* ------------------------------------------------------------------- C3
\* C3: a transfer_from(from, to, value) by spender s with
\* balance_of(from) >= value but allowance(from, s) < value fails with
\* InsufficientAllowance, and balance_of(from), balance_of(to), total_supply
\* and every allowance are afterwards what they were before the call.
TransferFromAtomicity ==
    [][(/\ Called("transfer_from")
        /\ balance_of(last'.from) >= last'.value
        /\ allowance(last'.from, last'.caller) < last'.value)
         => (last'.result = "InsufficientAllowance" /\ LedgerUnchanged)]_vars

\* A transfer_from between two different accounts has just failed its
\* allowance check although the source could pay.
TransferFromAtomicityWitness ==
    /\ last.op = "transfer_from" /\ last.result = "InsufficientAllowance"
    /\ last.from # last.to /\ last.value > 0
    /\ balance_of(last.from) >= last.value
    /\ allowance(last.from, last.caller) < last.value

\* ------------------------------------------------------------------- C4
\* C4: a mint(to, value) by the minter for which balance_of(to) + value or
\* total_supply + value exceeds the maximum Balance aborts with
\* ArithmeticOverflow and leaves balances and total_supply unchanged; the
\* stored balance and supply never wrap around.
MintOverflowAborts ==
    [][(/\ Called("mint")
        /\ last'.caller = minter
        /\ \/ balance_of(last'.to) + last'.value > MaxBalance
           \/ total_supply + last'.value > MaxBalance)
         => (last'.result = "ArithmeticOverflow" /\ BalancesUnchanged)]_vars

\* ------------------------------------------------------------------- C5
\* C5: for every caller C, burn(value) with value > balance_of(C) fails with
\* InsufficientBalance and leaves total_supply, all balances and all
\* allowances unchanged.
BurnSelfLimitation ==
    [][(Called("burn") /\ last'.value > balance_of(last'.caller))
         => (last'.result = "InsufficientBalance" /\ LedgerUnchanged)]_vars

\* A burn of more than the caller holds has just been refused while the
\* ledger as a whole holds at least that much.
BurnSelfLimitationWitness ==
    /\ last.op = "burn" /\ last.result = "InsufficientBalance"
    /\ last.value > balance_of(last.caller)
    /\ total_supply >= last.value

\* ------------------------------------------------------------------- C6
\* C6: transfer(to, value) by caller C with value > balance_of(C), and
\* transfer_from(from, to, value) with value > balance_of(from), fail with
\* InsufficientBalance and leave total_supply, all balances and all
\* allowances unchanged.
InsufficientSourceBalance ==
    [][((Called("transfer") \/ Called("transfer_from"))
         /\ last'.value > balance_of(last'.from))
         => (last'.result = "InsufficientBalance" /\ LedgerUnchanged)]_vars

\* A transfer_from has just been refused for lack of source balance although
\* the recipient holds, and the spender is allowed, at least the value.
InsufficientSourceBalanceWitness ==
    /\ last.op = "transfer_from" /\ last.result = "InsufficientBalance"
    /\ last.value > balance_of(last.from)
    /\ balance_of(last.to) >= last.value
    /\ allowance(last.from, last.caller) >= last.value

\* ------------------------------------------------------------------- C7
\* C7: after a successful transfer_from(from, to, v) by spender s,
\* allowance(from, s) is its value before the call minus v, and
\* allowance(o, p) is unchanged for every other pair.
AllowanceDecrementLaw ==
    [][(Called("transfer_from") /\ last'.result = "ok")
         => \A o \in Accounts, p \in Accounts :
              allowance(o, p)' =
                IF <<o, p>> = <<last'.from, last'.caller>>
                THEN allowance(o, p) - last'.value
                ELSE allowance(o, p)]_vars

\* A third party has just moved a positive value out of an owner's balance
\* and still has allowance left.
AllowanceDecrementLawWitness ==
    /\ last.op = "transfer_from" /\ last.result = "ok"
    /\ last.value > 0
    /\ last.caller # last.from
    /\ allowance(last.from, last.caller) > 0

\* ------------------------------------------------------------------- C8
\* What the spender p[2] has moved out of p[1] since p[1]'s latest approve
\* for it, together with what it may still move, is what that approve
\* granted (nothing, before any approve): so over any stretch of calls
\* without a new approve the values moved never exceed the allowance the
\* stretch started with.
DelegationLaw(p) ==
    allowance(p[1], p[2]) + SeqSum(delegated[p].moved) = delegated[p].limit

\* The owner p[1] approved p[2] for some v and p[2] has since moved all of v.
Exhausted(p) ==
    /\ delegated[p].approved
    /\ Len(delegated[p].moved) >= 1
    /\ SeqSum(delegated[p].moved) = delegated[p].limit

\* C8 as stated: the delegated spending bound holds, after approve(S, v) and a
\* successful transfer_from(O, T, v) by S the allowance is 0, and any further
\* transfer_from(O, T, w) by S with w >= 1 fails with InsufficientAllowance
\* (taken here in the case the spec's scenario describes: v >= 1 and a
\* spender other than the owner).
DelegatedSpendingAsStated ==
    [][/\ \A p \in Pairs :
            /\ DelegationLaw(p)'
            /\ Exhausted(p)' => allowance(p[1], p[2])' = 0
       /\ (/\ Called("transfer_from")
           /\ Exhausted(<<last'.from, last'.caller>>)
           /\ delegated[<<last'.from, last'.caller>>].limit >= 1
           /\ last'.caller # last'.from
           /\ last'.value >= 1)
            => last'.result = "InsufficientAllowance"]_vars

\* C8, amended: the delegated spending bound holds, after approve(S, v) and a
\* successful transfer_from(O, T, v) by S the allowance is 0, and any further
\* transfer_from(O, T, w) by S with w >= 1 fails: with InsufficientBalance
\* when balance_of(O) < w, and with InsufficientAllowance otherwise.
DelegatedSpendingBound ==
    [][/\ \A p \in Pairs :
            /\ DelegationLaw(p)'
            /\ Exhausted(p)' => allowance(p[1], p[2])' = 0
       /\ (/\ Called("transfer_from")
           /\ Exhausted(<<last'.from, last'.caller>>)
           /\ last'.value >= 1)
            => /\ last'.result = IF balance_of(last'.from) < last'.value
                                 THEN "InsufficientBalance"
                                 ELSE "InsufficientAllowance"
               /\ LedgerUnchanged]_vars

\* A spender that had used up a positive approval has just been refused a
\* further transfer_from, for lack of allowance, from an owner who could pay.
DelegatedSpendingBoundWitness ==
    /\ last.op = "transfer_from" /\ last.result = "InsufficientAllowance"
    /\ last.value >= 1
    /\ last.caller # last.from
    /\ Exhausted(<<last.from, last.caller>>)
    /\ delegated[<<last.from, last.caller>>].limit >= 1
    /\ balance_of(last.from) >= last.value

\* ------------------------------------------------------------------- C9
\* C9: a successful transfer(to, value) by caller C with to # C decreases
\* balance_of(C) by exactly value, increases balance_of(to) by exactly value,
\* and leaves total_supply, every other balance and every allowance unchanged.
TransferEffect ==
    [][\A c \in Accounts, t \in Accounts :
         (/\ Called("transfer") /\ last'.result = "ok"
          /\ last'.caller = c /\ last'.to = t /\ t # c)
           => /\ balance_of(c)' = balance_of(c) - last'.value
              /\ balance_of(t)' = balance_of(t) + last'.value
              /\ \A a \in Accounts \ {c, t} : balance_of(a)' = balance_of(a)
              /\ total_supply' = total_supply
              /\ \A o \in Accounts, s \in Accounts :
                    allowance(o, s)' = allowance(o, s)]_vars

\* ------------------------------------------------------------------ C10
\* C10 as stated: for every value <= balance_of(C), transfer(C, value) by C
\* succeeds and leaves every balance and total_supply unchanged, and so does
\* transfer_from(from, from, value) for every value <= balance_of(from).
SelfTransferAsStated ==
    [][/\ (/\ Called("transfer")
           /\ last'.to = last'.caller
           /\ last'.value <= balance_of(last'.caller))
            => (last'.result = "ok" /\ BalancesUnchanged)
       /\ (/\ Called("transfer_from")
           /\ last'.to = last'.from
           /\ last'.value <= balance_of(last'.from))
            => (last'.result = "ok" /\ BalancesUnchanged)]_vars

\* C10, amended: for every value <= balance_of(C), transfer(C, value) by C
\* succeeds and leaves every balance and total_supply unchanged; so does
\* transfer_from(from, from, value) for every value <= balance_of(from) that
\* is also <= allowance(from, caller).
SelfTransfer ==
    [][/\ (/\ Called("transfer")
           /\ last'.to = last'.caller
           /\ last'.value <= balance_of(last'.caller))
            => (last'.result = "ok" /\ BalancesUnchanged)
       /\ (/\ Called("transfer_from")
           /\ last'.to = last'.from
           /\ last'.value <= balance_of(last'.from)
           /\ last'.value <= allowance(last'.from, last'.caller))
            => (last'.result = "ok" /\ BalancesUnchanged)]_vars

\* A transfer_from of a positive value from an account to itself has just
\* succeeded.
SelfTransferWitness ==
    /\ last.op = "transfer_from" /\ last.result = "ok"
    /\ last.to = last.from
    /\ last.value >= 1
    /\ balance_of(last.from) >= last.value

\* ------------------------------------------------------------------ C11
\* C11: approve(S, v1) followed by approve(S, v2), both by O, results in
\* allowance(O, S) == v2, whatever v1 and whatever the allowance was before
\* the first call: an approve for a pair approved before sets, never adds.
ApproveOverwrite ==
    [][\A o \in Accounts, s \in Accounts :
         (/\ delegated[<<o, s>>].approved
          /\ Called("approve") /\ last'.caller = o /\ last'.to = s)
           => (last'.result = "ok" /\ allowance(o, s)' = last'.value)]_vars

\* A second approve has just replaced a positive allowance by a different
\* positive one.
ApproveOverwriteWitness ==
    /\ last.op = "approve" /\ last.result = "ok"
    /\ last.value >= 1
    /\ delegated[<<last.caller, last.to>>].replaced >= 1
    /\ delegated[<<last.caller, last.to>>].replaced # last.value
    /\ allowance(last.caller, last.to) = last.value

\* ------------------------------------------------------------------ C12
\* C12: a successful mint(to, value) by the minter increases balance_of(to)
\* and total_supply by exactly value and leaves every other balance and
\* every allowance unchanged, for any target account.
MintEffect ==
    [][\A t \in Accounts :
         (Called("mint") /\ last'.result = "ok" /\ last'.to = t)
           => /\ balance_of(t)' = balance_of(t) + last'.value
              /\ total_supply' = total_supply + last'.value
              /\ \A a \in Accounts \ {t} : balance_of(a)' = balance_of(a)
              /\ \A o \in Accounts, s \in Accounts :
                    allowance(o, s)' = allowance(o, s)]_vars

\* ------------------------------------------------------------------ C13
\* C13: for any caller C with balance_of(C) >= value, burn(value) succeeds,
\* decreases balance_of(C) and total_supply by exactly value and leaves every
\* other balance and every allowance unchanged; no burn decreases the balance
\* of an account other than its caller.
BurnEffect ==
    [][\A c \in Accounts :
         (Called("burn") /\ last'.caller = c)
           => /\ \A a \in Accounts \ {c} : balance_of(a)' >= balance_of(a)
              /\ balance_of(c) >= last'.value
                   => /\ last'.result = "ok"
                      /\ balance_of(c)' = balance_of(c) - last'.value
                      /\ total_supply' = total_supply - last'.value
                      /\ \A a \in Accounts \ {c} : balance_of(a)' = balance_of(a)
                      /\ \A o \in Accounts, s \in Accounts :
                            allowance(o, s)' = allowance(o, s)]_vars

\* ------------------------------------------------------------------ C14
\* C14: immediately after construction by caller C, minter() == C,
\* total_supply() == 0, every balance and every allowance is 0, and exactly
\* one event, Transfer{from: None, to: Some(C), value: 0}, has been emitted.
InitialState ==
    calls = 0 =>
      /\ last.op = "new"
      /\ minter = last.caller
      /\ total_supply = 0
      /\ \A a \in Accounts : balance_of(a) = 0
      /\ \A o \in Accounts, s \in Accounts : allowance(o, s) = 0
      /\ events = <<TransferEvent(None, last.caller, 0)>>

\* The contract has just been constructed and its creator holds a (zero)
\* balance entry.
InitialStateWitness ==
    /\ calls = 0 /\ last.op = "new" /\ last.caller \in Creators
    /\ last.caller \in DOMAIN balances
    /\ Len(events) = 1

\* ------------------------------------------------------------------ C15
\* C15: in every state reachable after construction, by any calls from any
\* callers, minter() is the account that called the constructor: it is that
\* account when the first message arrives and no message changes it.
MinterImmutability ==
    [][/\ calls = 0 => minter = last.caller
       /\ minter' = minter]_vars

\* Two or more messages have been dispatched and the latest, by an account
\* other than the minter, succeeded.
MinterImmutabilityWitness ==
    /\ calls >= 2
    /\ last.caller # minter /\ last.result = "ok"
    /\ last.op \in {"approve", "burn", "transfer", "transfer_from"}
    /\ last.value >= 1

\* ------------------------------------------------------------------ C16
\* C16: in every reachable state every balance, every allowance and
\* total_supply are >= 0, and no subtraction in burn, transfer or
\* transfer_from (of a balance, the supply or an allowance) is performed with
\* a subtrahend larger than the minuend.
NonNegativity ==
    [][/\ total_supply' >= 0
       /\ \A a \in Accounts : balance_of(a)' >= 0
       /\ \A o \in Accounts, s \in Accounts : allowance(o, s)' >= 0
       /\ (Called("burn") /\ last'.result = "ok")
            => /\ balance_of(last'.caller) >= last'.value
               /\ total_supply >= last'.value
       /\ (Called("transfer") /\ last'.result = "ok")
            => balance_of(last'.from) >= last'.value
       /\ (Called("transfer_from") /\ last'.result = "ok")
            => /\ balance_of(last'.from) >= last'.value
               /\ allowance(last'.from, last'.caller) >= last'.value]_vars

\* ------------------------------------------------------------------ C17
\* C17: approve(spender, value) by any caller O succeeds for every value,
\* also when value > balance_of(O) or spender == O, and changes only
\* allowance(O, spender): total_supply, every balance and every other
\* allowance are unchanged.
ApproveFrame ==
    [][Called("approve")
         => /\ last'.result = "ok"
            /\ BalancesUnchanged
            /\ \A o \in Accounts, s \in Accounts :
                  <<o, s>> # <<last'.caller, last'.to>>
                    => allowance(o, s)' = allowance(o, s)]_vars

\* An account has just approved another for more than it holds, while a
\* different pair has a positive allowance.
ApproveFrameWitness ==
    /\ last.op = "approve" /\ last.result = "ok"
    /\ last.value > balance_of(last.caller)
    /\ last.to # last.caller
    /\ \E o \in Accounts, s \in Accounts :
         /\ <<o, s>> # <<last.caller, last.to>>
         /\ allowance(o, s) >= 1

\* ------------------------------------------------------------------ C18
\* C18: a successful transfer_from(from, to, value) by spender s whose prior
\* allowance is c emits exactly two events, first
\* Transfer{from: Some(from), to: Some(to), value} and then
\* Approval{owner: from, spender: s, value: c - value}; a failed
\* transfer_from leaves no emitted event.
TransferFromEvents ==
    [][Called("transfer_from")
         => events' =
              IF last'.result = "ok"
              THEN <<TransferEvent(last'.from, last'.to, last'.value),
                     ApprovalEvent(last'.from, last'.caller,
                       allowance(last'.from, last'.caller) - last'.value)>>
              ELSE <<>>]_vars

\* A transfer_from of a positive value by a third party has just emitted its
\* two events.
TransferFromEventsWitness ==
    /\ last.op = "transfer_from" /\ last.result = "ok"
    /\ last.value >= 1 /\ last.caller # last.from
    /\ Len(events) = 2
    /\ events[1].event = "Transfer" /\ events[2].event = "Approval"

\* ------------------------------------------------------------------ C19
\* C19: when both balance_of(from) < value and allowance(from, spender) <
\* value, transfer_from fails with InsufficientBalance, not
\* InsufficientAllowance.
TransferFromCheckPrecedence ==
    [][(/\ Called("transfer_from")
        /\ balance_of(last'.from) < last'.value
        /\ allowance(last'.from, last'.caller) < last'.value)
         => last'.result = "InsufficientBalance"]_vars

\* A transfer_from short of both balance and allowance has just failed, from
\* an owner that holds something and has approved the spender for something.
TransferFromCheckPrecedenceWitness ==
    /\ last.op = "transfer_from" /\ last.result = "InsufficientBalance"
    /\ balance_of(last.from) < last.value
    /\ allowance(last.from, last.caller) < last.value
    /\ balance_of(last.from) >= 1
    /\ allowance(last.from, last.caller) >= 1

\* ------------------------------------------------------------------ C20
\* C20: for every transfer or transfer_from whose source-balance check
\* passes, balance_of(to) + value, computed after the source has been
\* debited, does not exceed the maximum Balance, and ArithmeticOverflow
\* arises only from mint.
TransferCannotOverflow ==
    [][\A f \in Accounts, t \in Accounts :
         /\ (/\ Called("transfer") \/ Called("transfer_from")
             /\ last'.from = f /\ last'.to = t
             /\ balance_of(f) >= last'.value)
              => (IF t = f THEN balance_of(t) - last'.value ELSE balance_of(t))
                   + last'.value <= MaxBalance
         /\ last'.result = "ArithmeticOverflow" => last'.op = "mint"]_vars

====
